---- MODULE Spec2Model ----
(***************************************************************************)
(* A model of vampytest: conditions (assertions) and their state, the      *)
(* classification of a test unit under the revert / raising wrappers, the  *)
(* OutputWriter, and the DefaultEventFormatter that reports a run.         *)
(*                                                                         *)
(* Four specifications share the variables:                                *)
(*   Spec           a test unit's body creating and evaluating conditions  *)
(*   WriterSpec     calls on one OutputWriter                              *)
(*   FormatterSpec  the events of one run published to the default manager *)
(*   RunEndSpec     a run of two files followed to its end                 *)
(***************************************************************************)
EXTENDS Integers, Sequences, FiniteSets, TLC

VARIABLES
    \* ---- a test unit and its conditions (Spec)
    pc,              \* "idle" | "running" | "created" | "finished" | "done"
    wrapper,         \* the wrapper of the running unit
    conditions,      \* the conditions the body created, in creation order
    raised,          \* the error that left the body, or NoError
    classification,  \* the unit's classification, or "NOT_RUN" / "RUNNING"
    \* ---- one OutputWriter (WriterSpec)
    last_chunk_break_line,             \* OutputWriter._last_chunk_break_line
    last_write_ended_with_linebreak,   \* OutputWriter._last_write_ended_with_linebreak
    file,            \* what file.write received, one element per call
    file_by,         \* for each element of file, the statement that wrote it
    returned,        \* the calls made so far: method, parameter, return value
    \* ---- one run reported by one DefaultEventFormatter (FormatterSpec)
    phase,           \* "registering" | "loading" | "testing" | "ended"
    cursor,          \* the file to load or to test next, an index of context.files
    context,         \* the run context: registered files, results, load failures
    rendered_entries,  \* DefaultEventFormatter.rendered_entries
    output,          \* the calls on the output writer while handling the latest event
    render_log,      \* the entries whose render_into was called, in call order
    published,       \* the latest event published to the event handler manager
    invoked          \* the handlers invoked for the latest event, in order

vars == <<pc, wrapper, conditions, raised, classification,
          last_chunk_break_line, last_write_ended_with_linebreak, file, file_by,
          returned, phase, cursor, context, rendered_entries, output,
          render_log, published, invoked>>

run_vars == <<phase, cursor, context, rendered_entries, output, render_log,
              published, invoked>>

unit_vars == <<pc, wrapper, conditions, raised, classification>>
writer_vars == <<last_chunk_break_line, last_write_ended_with_linebreak, file,
                 file_by, returned>>

\* ------------------------------------------------------------------ bounds

\* The most conditions one test body creates.
MaxConditions == 2

\* The most calls made on the OutputWriter.
MaxCalls == 4

\* The most results one run records, when every event of the run is followed.
MaxTests == 3

\* The most results one run records, when the end of the run is followed.
MaxResults == 5

\* ------------------------------------------------------- python values

\* Values a test body hands to an assertion.  "1" and "True" are two distinct
\* objects that compare equal; "0" is falsy; the truth value of "raiser" cannot
\* be taken (its __bool__ raises ValueError).
Types == {"int", "bool", "str"}
NonTypes == {"1", "True", "0", "raiser"}
Objects == Types \cup NonTypes
NoValue == "NoValue"

\* isinstance(value, type)
IsType(value) == value \in Types

\* The classes a class derives from, itself included (its mro without object).
Mro(cls) ==
    CASE cls = "bool" -> {"bool", "int"}
      [] cls = "int"  -> {"int"}
      [] cls = "str"  -> {"str"}

\* value_1 == value_2 for the values above.
PyValue(value) ==
    CASE value = "True" -> "1"
      [] OTHER          -> value

PyEq(value_1, value_2) == PyValue(value_1) = PyValue(value_2)

\* Error kinds and the kinds each derives from, itself included.
NoError == "NoError"
ErrorKinds == {"TypeError", "ValueError", "LookupError", "KeyError"}
ErrorMro(kind) ==
    CASE kind = "KeyError" -> {"KeyError", "LookupError"}
      [] OTHER             -> {kind}

\* The outcome of running a predicate: it returns a truth value, it raises, or
\* the call was malformed (a usage error).
Returns(value) == [kind |-> "return", value |-> value, error |-> NoError]
Raises(error) == [kind |-> "raise", value |-> FALSE, error |-> error]
UsageError(error) == [kind |-> "usage", value |-> FALSE, error |-> error]

\* ------------------------------------------------------------ conditions

NONE == "NONE"
SUCCEEDED == "SUCCEEDED"
FAILED == "FAILED"
TerminalStates == {SUCCEEDED, FAILED}

AssertionBase_new_created_terminal(cls) ==
    [cls |-> cls, state |-> SUCCEEDED]

\* AssertionBase.__new__: a new condition, in state NONE.
AssertionBase_new(cls) ==
    [cls |-> cls, state |-> NONE]

\* A condition of class cls over its operands, as the conditional base builds it
\* on top of AssertionBase.__new__.
NewCondition(cls, value_1, value_2) ==
    [cls |-> AssertionBase_new(cls).cls,
     state |-> AssertionBase_new(cls).state,
     exception |-> NoError,
     value_1 |-> value_1,
     value_2 |-> value_2]

AssertionIdentical_invoke_condition_equal(self) ==
    Returns(PyEq(self.value_1, self.value_2))

\* AssertionIdentical.invoke_condition: value_1 is value_2.
AssertionIdentical_invoke_condition(self) ==
    Returns(self.value_1 = self.value_2)

\* AssertionValueEvaluationFalse.invoke_condition: not value_1.
AssertionValueEvaluationFalse_invoke_condition(self) ==
    CASE self.value_1 = "raiser" -> Raises("ValueError")
      [] self.value_1 = "0"      -> Returns(TRUE)
      [] OTHER                   -> Returns(FALSE)

AssertionSubtype_invoke_condition_unchecked(self) ==
    IF ~IsType(self.value_2) \/ ~IsType(self.value_1)
    THEN UsageError("TypeError")
    ELSE Returns(self.value_2 \in Mro(self.value_1))

\* The subtype condition: a reference that is no type is a usage error; a
\* checked value that is no type is no subtype of anything.
AssertionSubtype_invoke_condition(self) ==
    IF ~IsType(self.value_2)
    THEN UsageError("TypeError")
    ELSE Returns(IsType(self.value_1) /\ self.value_2 \in Mro(self.value_1))

invoke_condition(self) ==
    CASE self.cls = "AssertionIdentical" ->
            AssertionIdentical_invoke_condition(self)
      [] self.cls = "AssertionValueEvaluationFalse" ->
            AssertionValueEvaluationFalse_invoke_condition(self)
      [] self.cls = "AssertionSubtype" ->
            AssertionSubtype_invoke_condition(self)

\* What evaluating a condition leaves: the condition and the error that leaves
\* the evaluation (NoError when none does).
Evaluated(self, state, exception, propagated) ==
    [condition |-> [self EXCEPT !.state = state, !.exception = exception],
     propagated |-> propagated]

evaluate_capturing_usage_errors(self) ==
    LET outcome == invoke_condition(self) IN
    CASE outcome.kind \in {"raise", "usage"} ->
            Evaluated(self, FAILED, outcome.error, NoError)
      [] outcome.kind = "return" /\ outcome.value ->
            Evaluated(self, SUCCEEDED, NoError, NoError)
      [] OTHER -> Evaluated(self, FAILED, NoError, NoError)

\* evaluate(): runs the predicate once.  A usage error leaves the evaluation and
\* is not captured; an error the predicate raises is captured and the condition
\* fails; otherwise the truth value decides.
evaluate(self) ==
    LET outcome == invoke_condition(self) IN
    CASE outcome.kind = "usage" ->
            Evaluated(self, self.state, self.exception, outcome.error)
      [] outcome.kind = "raise" ->
            Evaluated(self, FAILED, outcome.error, NoError)
      [] outcome.kind = "return" /\ outcome.value ->
            Evaluated(self, SUCCEEDED, NoError, NoError)
      [] OTHER -> Evaluated(self, FAILED, NoError, NoError)

\* ------------------------------------------------------------ test units

PASSED == "PASSED"
Classifications == {PASSED, FAILED, "SKIPPED", "INFORMAL", "CONFLICTED", "UNKNOWN"}

NoWrapper == [kind |-> "none", error |-> NoError]
Revert == [kind |-> "revert", error |-> NoError]
Raising(kind) == [kind |-> "raising", error |-> kind]
Wrappers == {NoWrapper, Revert, Raising("TypeError"), Raising("LookupError")}

\* The tests of test_assertion_subtype.py: the wrapper and the one assertion of
\* the body.
TestOf(w, value_1, value_2) ==
    [wrapper |-> w, cls |-> "AssertionSubtype", value_1 |-> value_1, value_2 |-> value_2]

test_assert_subtype == TestOf(NoWrapper, "bool", "int")
test_assert_subtype_reverted == TestOf(Revert, "bool", "str")
test_assert_subtype_incorrect_type == TestOf(Raising("TypeError"), "bool", "1")
test_assert_subtype_incorrect_checked == TestOf(Revert, "1", "int")

\* The operands the bodies of the model hand to each assertion.
SubtypeOperands == {"bool", "int", "str", "1"}
IdenticalOperands == {"1", "True", "int"}
FalseOperands == {"0", "1", "raiser"}

\* A condition failed in the body.
AnyFailed(conds) == \E i \in 1..Len(conds) : conds[i].state = FAILED

\* The body ended with a failing outcome: a condition failed or an error left it.
FailingOutcome(conds, error) == AnyFailed(conds) \/ error # NoError

Revert_classify_unchanged(conds, error) ==
    IF FailingOutcome(conds, error) THEN FAILED ELSE PASSED

\* Revert: a failing outcome passes, a body without failure fails.
Revert_classify(conds, error) ==
    IF FailingOutcome(conds, error) THEN PASSED ELSE FAILED

Raising_classify_exact_kind(kind, conds, error) ==
    IF ~AnyFailed(conds) /\ error = kind THEN PASSED ELSE FAILED

\* Raising(kind): passes iff the body raised an error of the kind or of a kind
\* deriving from it; a failed assertion of the body is an ordinary failure.
Raising_classify(kind, conds, error) ==
    IF ~AnyFailed(conds) /\ error # NoError /\ kind \in ErrorMro(error)
    THEN PASSED
    ELSE FAILED

\* The classification of a unit whose body ended with these conditions and this
\* error.
classify(w, conds, error) ==
    CASE w.kind = "revert"  -> Revert_classify(conds, error)
      [] w.kind = "raising" -> Raising_classify(w.error, conds, error)
      [] OTHER -> IF FailingOutcome(conds, error) THEN FAILED ELSE PASSED

Last(seq) == seq[Len(seq)]

\* A unit starts: its body has created no condition yet.
StartUnit(w) ==
    /\ pc \in {"idle", "done"}
    /\ pc' = "running"
    /\ wrapper' = w
    /\ conditions' = <<>>
    /\ raised' = NoError
    /\ classification' = "RUNNING"
    /\ UNCHANGED <<writer_vars, run_vars>>

\* The body calls an assertion: the condition is created.
AssertCall(cls, value_1, value_2) ==
    /\ pc = "running"
    /\ Len(conditions) < MaxConditions
    /\ conditions' = Append(conditions, NewCondition(cls, value_1, value_2))
    /\ pc' = "created"
    /\ UNCHANGED <<wrapper, raised, classification>>
    /\ UNCHANGED <<writer_vars, run_vars>>

\* The created condition is evaluated.  A usage error leaves the body; a failed
\* condition ends the body as well.
Evaluate ==
    /\ pc = "created"
    /\ LET done == evaluate(Last(conditions)) IN
        /\ conditions' = [conditions EXCEPT ![Len(conditions)] = done.condition]
        /\ raised' = done.propagated
        /\ pc' = IF done.propagated # NoError \/ done.condition.state = FAILED
                 THEN "finished"
                 ELSE "running"
    /\ UNCHANGED <<wrapper, classification>>
    /\ UNCHANGED <<writer_vars, run_vars>>

\* The body raises an error of its own.
RaiseError(kind) ==
    /\ pc = "running"
    /\ raised' = kind
    /\ pc' = "finished"
    /\ UNCHANGED <<wrapper, conditions, classification>>
    /\ UNCHANGED <<writer_vars, run_vars>>

\* The body returns.
ReturnBody ==
    /\ pc = "running"
    /\ pc' = "finished"
    /\ UNCHANGED <<wrapper, conditions, raised, classification>>
    /\ UNCHANGED <<writer_vars, run_vars>>

\* The wrapper is consulted once the body has ended.
Complete ==
    /\ pc = "finished"
    /\ classification' = classify(wrapper, conditions, raised)
    /\ pc' = "done"
    /\ UNCHANGED <<wrapper, conditions, raised>>
    /\ UNCHANGED <<writer_vars, run_vars>>

WriterInit_line_ended ==
    /\ last_chunk_break_line = FALSE
    /\ last_write_ended_with_linebreak = TRUE
    /\ file = <<>>
    /\ file_by = <<>>
    /\ returned = <<>>

\* OutputWriter.__new__
WriterInit ==
    /\ last_chunk_break_line = FALSE
    /\ last_write_ended_with_linebreak = FALSE
    /\ file = <<>>
    /\ file_by = <<>>
    /\ returned = <<>>

UnitInit ==
    /\ pc = "idle"
    /\ wrapper = NoWrapper
    /\ conditions = <<>>
    /\ raised = NoError
    /\ classification = "NOT_RUN"

\* The result of an event that carries none.
NoResult == [case |-> 0, classification |-> "NONE"]

\* An event: its kind and what it carries besides the context.
Event(kind, test_file, result, has_test_file, last) ==
    [kind |-> kind, file |-> test_file, result |-> result,
     has_test_file |-> has_test_file, last |-> last]

NoEvent == Event("None", "NoValue", NoResult, FALSE, FALSE)

RunInit ==
    /\ phase = "registering"
    /\ cursor = 1
    /\ context = [files |-> <<>>, results |-> <<>>, load_failures |-> <<>>]
    /\ rendered_entries = {}
    /\ output = <<>>
    /\ render_log = <<>>
    /\ published = NoEvent
    /\ invoked = <<>>

Init == UnitInit /\ WriterInit /\ RunInit

Next ==
    \/ \E w \in Wrappers : StartUnit(w)
    \/ \E value_1, value_2 \in SubtypeOperands :
            AssertCall("AssertionSubtype", value_1, value_2)
    \/ \E value_1, value_2 \in IdenticalOperands :
            AssertCall("AssertionIdentical", value_1, value_2)
    \/ \E value_1 \in FalseOperands :
            AssertCall("AssertionValueEvaluationFalse", value_1, NoValue)
    \/ Evaluate
    \/ \E kind \in ErrorKinds : RaiseError(kind)
    \/ ReturnBody
    \/ Complete

Spec == Init /\ [][Next]_vars

\* ------------------------------------------------- properties of Spec

\* The conditions whose evaluation has been run.
IsEvaluated(i) == i < Len(conditions) \/ pc # "created"

\* The one test of the source running or run: its wrapper and its one assertion.
Runs(test) ==
    /\ wrapper = test.wrapper
    /\ Len(conditions) = 1
    /\ conditions[1].cls = test.cls
    /\ conditions[1].value_1 = test.value_1
    /\ conditions[1].value_2 = test.value_2

C2_SubtypeRelation ==
    \A i \in 1..Len(conditions) :
        LET c == conditions[i] IN
        (c.cls = "AssertionSubtype" /\ IsType(c.value_2) /\ IsEvaluated(i)) =>
            /\ c.state = SUCCEEDED <=> (IsType(c.value_1) /\ c.value_2 \in Mro(c.value_1))
            /\ c.state \in TerminalStates
            /\ c.exception = NoError
            /\ (pc = "finished" /\ i = Len(conditions) /\ c.state = FAILED) => raised = NoError
            /\ (c.value_1 = "bool" /\ c.value_2 = "int") => c.state = SUCCEEDED
            /\ (c.value_1 = "bool" /\ c.value_2 = "str") => c.state = FAILED
            /\ (c.value_1 = "1" /\ c.value_2 = "int") => c.state = FAILED

C2_Witness ==
    /\ pc = "done"
    /\ Runs(test_assert_subtype_incorrect_checked)
    /\ conditions[1].state = FAILED
    /\ raised = NoError

\* C3: a subtype condition whose reference is no type is never FAILED and
\* captures no error: once evaluated, TypeError has left the body, which ended
\* there.
C3_UsageErrorPropagates ==
    \A i \in 1..Len(conditions) :
        LET c == conditions[i] IN
        (c.cls = "AssertionSubtype" /\ ~IsType(c.value_2)) =>
            /\ c.state # FAILED
            /\ c.exception = NoError
            /\ IsEvaluated(i) =>
                /\ raised = "TypeError"
                /\ i = Len(conditions)
                /\ pc \in {"finished", "done"}

C3_Witness ==
    /\ pc = "done"
    /\ Runs(test_assert_subtype_incorrect_type)
    /\ raised = "TypeError"
    /\ conditions[1].state = NONE

\* C4: a unit wrapped in Revert is PASSED iff a condition of its body failed or
\* an error left the body, and FAILED iff neither happened.
C4_RevertFlips ==
    (pc = "done" /\ wrapper = Revert) =>
        LET failing == \/ \E i \in 1..Len(conditions) : conditions[i].state = FAILED
                       \/ raised # NoError
        IN  /\ classification = PASSED <=> failing
            /\ classification = FAILED <=> ~failing

C4_Witness ==
    /\ pc = "done"
    /\ Runs(test_assert_subtype_reverted)
    /\ classification = PASSED

C6_Identity ==
    \A i \in 1..Len(conditions) :
        LET c == conditions[i] IN
        (c.cls = "AssertionIdentical" /\ IsEvaluated(i)) =>
            /\ c.state = SUCCEEDED <=> c.value_1 = c.value_2
            /\ c.state = FAILED <=> c.value_1 # c.value_2
            /\ (c.value_1 # c.value_2 /\ PyEq(c.value_1, c.value_2)) => c.state = FAILED

C6_Witness ==
    /\ Len(conditions) >= 1
    /\ conditions[1].cls = "AssertionIdentical"
    /\ conditions[1].value_1 = "1"
    /\ conditions[1].value_2 = "True"
    /\ PyEq("1", "True")
    /\ conditions[1].state = FAILED

\* ---------------------------------------------------------- OutputWriter

\* A string is the sequence of its characters.
LINEBREAK == <<"\n">>
BREAK_LINE == [i \in 1..80 |-> "="]

\* The strings handed to write; one of them reads like the break line.
Strings ==
    {<<>>, <<"\n">>, <<"a">>, <<"a", "\n">>, <<"\n", "a">>, <<"\n", "\n">>, BREAK_LINE}

startswith(string, prefix) ==
    /\ Len(string) >= Len(prefix)
    /\ SubSeq(string, 1, Len(prefix)) = prefix

endswith(string, suffix) ==
    /\ Len(string) >= Len(suffix)
    /\ SubSeq(string, Len(string) - Len(suffix) + 1, Len(string)) = suffix

\* The call recorded with what it returned.
Call(method, string, written) ==
    [method |-> method, string |-> string, written |-> written]

write_break_line_skips_never(last_break_line) == FALSE

\* write_break_line returns early when the last chunk was a break line.
write_break_line_skips(last_break_line) == last_break_line

write_needs_linebreak_unless_ended(ended_with_linebreak, string) ==
    ~ended_with_linebreak

\* write puts a line break first when the last write did not end with one and
\* the string does not start with one.
write_needs_linebreak(ended_with_linebreak, string) ==
    ~ended_with_linebreak /\ ~startswith(string, LINEBREAK)

write_break_line_needs_linebreak_never(ended_with_linebreak) == FALSE

\* write_break_line puts a line break first when the last write did not end
\* with one.
write_break_line_needs_linebreak(ended_with_linebreak) == ~ended_with_linebreak

\* OutputWriter.write_break_line
OutputWriter_write_break_line ==
    /\ Len(returned) < MaxCalls
    /\ IF write_break_line_skips(last_chunk_break_line)
       THEN /\ returned' = Append(returned, Call("write_break_line", <<>>, FALSE))
            /\ UNCHANGED <<file, file_by, last_write_ended_with_linebreak,
                           last_chunk_break_line>>
       ELSE /\ IF write_break_line_needs_linebreak(last_write_ended_with_linebreak)
               THEN /\ file' = file \o <<LINEBREAK, BREAK_LINE>>
                    /\ file_by' = file_by \o <<"write_break_line:linebreak",
                                               "write_break_line:BREAK_LINE">>
               ELSE /\ file' = Append(file, BREAK_LINE)
                    /\ file_by' = Append(file_by, "write_break_line:BREAK_LINE")
            /\ last_write_ended_with_linebreak' = FALSE
            /\ last_chunk_break_line' = TRUE
            /\ returned' = Append(returned, Call("write_break_line", <<>>, TRUE))
    /\ UNCHANGED <<unit_vars, run_vars>>

OutputWriter_write_clearing_flags_first(string) ==
    /\ Len(returned) < MaxCalls
    /\ IF string = <<>>
       THEN /\ returned' = Append(returned, Call("write", string, FALSE))
            /\ last_chunk_break_line' = FALSE
            /\ UNCHANGED <<file, file_by, last_write_ended_with_linebreak>>
       ELSE /\ IF write_needs_linebreak(last_write_ended_with_linebreak, string)
               THEN /\ file' = file \o <<LINEBREAK, string>>
                    /\ file_by' = file_by \o <<"write:linebreak", "write:string">>
               ELSE /\ file' = Append(file, string)
                    /\ file_by' = Append(file_by, "write:string")
            /\ last_write_ended_with_linebreak' = endswith(string, LINEBREAK)
            /\ last_chunk_break_line' = FALSE
            /\ returned' = Append(returned, Call("write", string, TRUE))
    /\ UNCHANGED <<unit_vars, run_vars>>

\* OutputWriter.write
OutputWriter_write(string) ==
    /\ Len(returned) < MaxCalls
    /\ IF string = <<>>
       THEN /\ returned' = Append(returned, Call("write", string, FALSE))
            /\ UNCHANGED <<file, file_by, last_write_ended_with_linebreak,
                           last_chunk_break_line>>
       ELSE /\ IF write_needs_linebreak(last_write_ended_with_linebreak, string)
               THEN /\ file' = file \o <<LINEBREAK, string>>
                    /\ file_by' = file_by \o <<"write:linebreak", "write:string">>
               ELSE /\ file' = Append(file, string)
                    /\ file_by' = Append(file_by, "write:string")
            /\ last_write_ended_with_linebreak' = endswith(string, LINEBREAK)
            /\ last_chunk_break_line' = FALSE
            /\ returned' = Append(returned, Call("write", string, TRUE))
    /\ UNCHANGED <<unit_vars, run_vars>>

WriterNext ==
    \/ OutputWriter_write_break_line
    \/ \E string \in Strings : OutputWriter_write(string)

WriterSpec == Init /\ [][WriterNext]_vars

\* ------------------------------------------- properties of WriterSpec

\* The elements of file that are separators written by write_break_line.
IsSeparator(i) == file_by[i] = "write_break_line:BREAK_LINE" /\ file[i] = BREAK_LINE

\* The step is a call of the method.
IsCallOf(method) ==
    /\ Len(returned') = Len(returned) + 1
    /\ Last(returned').method = method

\* C7: write_break_line writes the separator, as the last thing of the file,
\* unless the last thing written to the file was a separator, and then it writes
\* nothing; and between any two separators of the file lies a string that write
\* was given.
C7_NoDoubleSeparator ==
    /\ [][IsCallOf("write_break_line") =>
            IF file # <<>> /\ IsSeparator(Len(file))
            THEN file' = file /\ ~Last(returned').written
            ELSE /\ Len(file') > Len(file)
                 /\ SubSeq(file', 1, Len(file)) = file
                 /\ Last(file') = BREAK_LINE
                 /\ Last(file_by') = "write_break_line:BREAK_LINE"
                 /\ Last(returned').written]_vars
    /\ [](\A i, j \in 1..Len(file) :
            (i < j /\ IsSeparator(i) /\ IsSeparator(j)) =>
                \E k \in (i + 1)..(j - 1) : file_by[k] = "write:string")

C7_Witness ==
    /\ Len(returned) = 4
    /\ returned[1] = Call("write_break_line", <<>>, TRUE)
    /\ returned[2] = Call("write", <<"a">>, TRUE)
    /\ returned[3] = Call("write_break_line", <<>>, TRUE)
    /\ returned[4] = Call("write_break_line", <<>>, FALSE)
    /\ Cardinality({i \in 1..Len(file) : IsSeparator(i)}) = 2

\* C8: a line break that write puts in front of a string follows no chunk that
\* ends with a line break and precedes a string that does not start with one.
C8_NoDuplicateLeadingLinebreak ==
    \A k \in 1..Len(file) :
        file_by[k] = "write:linebreak" =>
            /\ file[k] = LINEBREAK
            /\ k > 1 => ~endswith(file[k - 1], LINEBREAK)
            /\ k < Len(file)
            /\ file_by[k + 1] = "write:string"
            /\ ~startswith(file[k + 1], LINEBREAK)

C8_Witness ==
    /\ Len(file) = 4
    /\ file_by = <<"write:linebreak", "write:string", "write:string", "write:string">>
    /\ endswith(file[2], LINEBREAK)
    /\ startswith(file[4], LINEBREAK)
    /\ ~endswith(file[3], LINEBREAK)

\* C18: a call returns true iff it wrote to the file; a call that returns false
\* is a write of the empty string or a write_break_line with a separator as the
\* last thing written, and it leaves the file and both flags as they were; a
\* write_break_line that follows a write_break_line and an empty write writes
\* nothing.
C18_ReturnValue ==
    /\ [][Len(returned') = Len(returned) + 1 =>
            LET call == Last(returned') IN
            /\ call.written <=> file' # file
            /\ ~call.written =>
                /\ file' = file
                /\ file_by' = file_by
                /\ last_chunk_break_line' = last_chunk_break_line
                /\ last_write_ended_with_linebreak' = last_write_ended_with_linebreak
                /\ IF call.method = "write"
                   THEN call.string = <<>>
                   ELSE file # <<>> /\ IsSeparator(Len(file))]_vars
    /\ [](\A i \in 1..(Len(returned) - 2) :
            ( /\ returned[i].method = "write_break_line"
              /\ returned[i + 1] = Call("write", <<>>, FALSE)
              /\ returned[i + 2].method = "write_break_line" ) =>
                ~returned[i + 2].written)

C18_Witness ==
    /\ returned = << Call("write_break_line", <<>>, TRUE),
                     Call("write", <<>>, FALSE),
                     Call("write_break_line", <<>>, FALSE) >>
    /\ file = <<LINEBREAK, BREAK_LINE>>

\* C19: every separator of the file follows a chunk that ends with a line break
\* and, when it is not the last chunk, precedes a chunk that starts with one; the
\* two flags of the writer are never both true.
C19_SeparatorOnItsOwnLine ==
    /\ \A i \in 1..Len(file) :
            IsSeparator(i) =>
                /\ i > 1
                /\ endswith(file[i - 1], LINEBREAK)
                /\ i < Len(file) => startswith(file[i + 1], LINEBREAK)
    /\ ~(last_chunk_break_line /\ last_write_ended_with_linebreak)

C19_Witness ==
    \E i \in 2..(Len(file) - 1) :
        /\ IsSeparator(i)
        /\ file_by[i - 1] = "write:string"
        /\ file_by[i + 1] = "write:string"
        /\ Len(file[i + 1]) > 1

\* The first call that wrote to the file.
FirstWritten ==
    returned[CHOOSE i \in 1..Len(returned) :
                /\ returned[i].written
                /\ \A j \in 1..(i - 1) : ~returned[j].written]

\* C20: the file of a writer begins with a line break: one the writer put there
\* before the separator or before the string of the first call that wrote,
\* unless that string starts with a line break itself.
C20_LeadingLinebreak ==
    file # <<>> =>
        /\ Head(file[1]) = "\n"
        /\ IF FirstWritten.method = "write" /\ startswith(FirstWritten.string, LINEBREAK)
           THEN file[1] = FirstWritten.string /\ file_by[1] = "write:string"
           ELSE /\ file[1] = LINEBREAK
                /\ Len(file) >= 2
                /\ IF FirstWritten.method = "write"
                   THEN /\ file_by[1] = "write:linebreak"
                        /\ file[2] = FirstWritten.string
                   ELSE /\ file_by[1] = "write_break_line:linebreak"
                        /\ file[2] = BREAK_LINE

C20_Witness ==
    /\ returned = <<Call("write", <<>>, FALSE), Call("write", <<"a">>, TRUE)>>
    /\ file = <<LINEBREAK, <<"a">>>>
    /\ file_by = <<"write:linebreak", "write:string">>

\* ------------------------------------------------- the run and its context

\* The discovery tree: test_a lies in root, test_b in root/pkg.  A test file is
\* named by its entry.
iter_parents(entry) ==
    CASE entry = "test_a" -> <<"root">>
      [] entry = "test_b" -> <<"root", "pkg">>
      [] entry = "pkg"    -> <<"root">>
      [] OTHER            -> <<>>

\* The files a run may register, in discovery order.
Registrations == {<<>>, <<"test_a">>, <<"test_b">>, <<"test_a", "test_b">>}

Range(seq) == {seq[i] : i \in 1..Len(seq)}

\* The accessors of the run context.
get_registered_file_count(ctx) == Len(ctx.files)
get_file_load_failures(ctx) == ctx.load_failures
is_loaded_with_failure(ctx, test_file) == test_file \in Range(ctx.load_failures)
ResultsOf(ctx, kind) == SelectSeq(ctx.results, LAMBDA result : result.classification = kind)
iter_failed_results(ctx) == ResultsOf(ctx, FAILED)
iter_informal_results(ctx) == ResultsOf(ctx, "INFORMAL")
get_failed_test_count(ctx) == Len(ResultsOf(ctx, FAILED))
get_skipped_test_count(ctx) == Len(ResultsOf(ctx, "SKIPPED"))
get_passed_test_count(ctx) == Len(ResultsOf(ctx, PASSED))

\* The context with one more result, of the next case.
add_result(ctx, kind) ==
    [ctx EXCEPT !.results =
        Append(@, [case |-> Len(ctx.results) + 1, classification |-> kind])]

\* The context with one more load failure.
add_load_failure(ctx, test_file) ==
    [ctx EXCEPT !.load_failures = Append(@, test_file)]

\* ---------------------------------------------------- DefaultEventFormatter

\* A text is a sequence of fragments: a string with its color, or what a
\* rendering hook of an entry put there.
NoColor == "NoColor"
NoName == <<>>
Text(string) == <<[text |-> string, color |-> NoColor]>>
style_text(string, color) == <<[text |-> string, color |-> color]>>

\* The characters of a text of strings, the colors dropped.
RECURSIVE PlainText(_)
PlainText(text) ==
    IF text = <<>> THEN "" ELSE Head(text).text \o PlainText(Tail(text))

\* entry.render_into(into, name = name)
render_into(into, entry, name) ==
    Append(into, [hook |-> "render_into", entry |-> entry, name |-> name])

\* entry.render_custom_sub_directory_into(into, name, last)
render_custom_sub_directory_into(into, entry, name, last) ==
    Append(into, [hook |-> "render_custom_sub_directory_into", entry |-> entry,
                  name |-> name, last |-> last])

\* A call on the output writer, or of a writer helper with the output writer.
Out(method, arg) == [method |-> method, arg |-> arg]

\* DefaultEventFormatter.file_registration_done
DefaultEventFormatter_file_registration_done(ctx) ==
    << Out("write_line",
           Text("Collected " \o ToString(get_registered_file_count(ctx)) \o " test file(s).")),
       Out("write_break_line", NoValue) >>

DefaultEventFormatter_maybe_render_test_file_into_every_parent(rendered, into, entry, name) ==
    IF entry \in rendered
    THEN [into |-> into, rendered |-> rendered]
    ELSE LET parents == iter_parents(entry)
             with_parents == into \o [i \in 1..Len(parents) |->
                                [hook |-> "render_into", entry |-> parents[i], name |-> NoName]]
         IN  [into |-> render_into(with_parents, entry, name),
              rendered |-> rendered \cup Range(parents) \cup {entry}]

DefaultEventFormatter_maybe_render_test_file_into_entry_first(rendered, into, entry, name) ==
    IF entry \in rendered
    THEN [into |-> into, rendered |-> rendered]
    ELSE LET parents == SelectSeq(iter_parents(entry), LAMBDA sub_entry : sub_entry \notin rendered)
         IN  [into |-> render_into(into, entry, name) \o [i \in 1..Len(parents) |->
                                [hook |-> "render_into", entry |-> parents[i], name |-> NoName]],
              rendered |-> rendered \cup Range(parents) \cup {entry}]

\* DefaultEventFormatter._maybe_render_test_file_into: the parts and the
\* rendered entries it leaves.
DefaultEventFormatter_maybe_render_test_file_into(rendered, into, entry, name) ==
    IF entry \in rendered
    THEN [into |-> into, rendered |-> rendered]
    ELSE LET parents == SelectSeq(iter_parents(entry), LAMBDA sub_entry : sub_entry \notin rendered)
             with_parents == into \o [i \in 1..Len(parents) |->
                                [hook |-> "render_into", entry |-> parents[i], name |-> NoName]]
         IN  [into |-> render_into(with_parents, entry, name),
              rendered |-> rendered \cup Range(parents) \cup {entry}]

test_done_keyword_informal_as_passed(kind) ==
    CASE kind = "SKIPPED"    -> [keyword |-> "S", foreground |-> "COLOR_SKIP"]
      [] kind = "CONFLICTED" -> [keyword |-> "C", foreground |-> "COLOR_FAIL"]
      [] kind = "INFORMAL"   -> [keyword |-> "P", foreground |-> "COLOR_PASS"]
      [] kind = PASSED       -> [keyword |-> "P", foreground |-> "COLOR_PASS"]
      [] kind = FAILED       -> [keyword |-> "F", foreground |-> "COLOR_FAIL"]
      [] OTHER               -> [keyword |-> "?", foreground |-> "COLOR_UNKNOWN"]

\* The keyword and the color test_done gives a result.
test_done_keyword(kind) ==
    CASE kind = "SKIPPED"    -> [keyword |-> "S", foreground |-> "COLOR_SKIP"]
      [] kind = "CONFLICTED" -> [keyword |-> "C", foreground |-> "COLOR_FAIL"]
      [] kind = "INFORMAL"   -> [keyword |-> "I", foreground |-> "COLOR_PASS"]
      [] kind = PASSED       -> [keyword |-> "P", foreground |-> "COLOR_PASS"]
      [] kind = FAILED       -> [keyword |-> "F", foreground |-> "COLOR_FAIL"]
      [] OTHER               -> [keyword |-> "?", foreground |-> "COLOR_UNKNOWN"]

case_name(result) == "test_" \o ToString(result.case)

failed_message_part(ctx) ==
    LET failed_count == get_failed_test_count(ctx)
        part == ToString(failed_count) \o " failed"
    IN  IF failed_count # 0 THEN style_text(part, "COLOR_FAIL") ELSE Text(part)

skipped_message_part(ctx) ==
    LET skipped_count == get_skipped_test_count(ctx)
        part == ToString(skipped_count) \o " skipped"
    IN  IF skipped_count # 0 THEN style_text(part, "COLOR_SKIP") ELSE Text(part)

passed_message_part(ctx) ==
    LET passed_count == get_passed_test_count(ctx)
        part == ToString(passed_count) \o " passed"
    IN  IF passed_count # 0 THEN style_text(part, "COLOR_PASS") ELSE Text(part)

summary_message_passed_first(failed_part, skipped_part, passed_part) ==
    passed_part \o Text(" | ") \o skipped_part \o Text(" | ") \o failed_part

\* f'{failed_message_part} | {skipped_message_part} | {passed_message_part}'
summary_message(failed_part, skipped_part, passed_part) ==
    failed_part \o Text(" | ") \o skipped_part \o Text(" | ") \o passed_part

\* The calls of testing_end that write the summary line.
testing_end_summary(ctx) ==
    LET load_failures == get_file_load_failures(ctx) IN
    << Out("write", summary_message(failed_message_part(ctx), skipped_message_part(ctx),
                                    passed_message_part(ctx))) >>
    \o (IF load_failures # <<>>
        THEN << Out("write", style_text(" | " \o ToString(Len(load_failures))
                                          \o " files failed to load", "COLOR_FAIL")) >>
        ELSE <<>>)
    \o << Out("end_line", NoValue) >>

testing_end_failures_informal_always(ctx) ==
    LET load_failures == get_file_load_failures(ctx)
        failed == iter_failed_results(ctx)
        informal == iter_informal_results(ctx)
    IN  [i \in 1..Len(load_failures) |-> Out("write_load_failure", load_failures[i])]
        \o [i \in 1..Len(failed) |-> Out("write_result_failing", failed[i])]
        \o [i \in 1..Len(informal) |-> Out("write_result_informal", informal[i])]

\* The calls of testing_end that write the load failures and the results.
testing_end_failures(ctx) ==
    LET load_failures == get_file_load_failures(ctx)
        failed == iter_failed_results(ctx)
        informal == iter_informal_results(ctx)
    IN  [i \in 1..Len(load_failures) |-> Out("write_load_failure", load_failures[i])]
        \o [i \in 1..Len(failed) |-> Out("write_result_failing", failed[i])]
        \o (IF get_failed_test_count(ctx) # 0
            THEN <<>>
            ELSE [i \in 1..Len(informal) |-> Out("write_result_informal", informal[i])])

DefaultEventFormatter_testing_end_summary_first(ctx) ==
    << Out("write_break_line", NoValue) >>
    \o testing_end_summary(ctx) \o testing_end_failures(ctx)

\* DefaultEventFormatter.testing_end: the calls it makes, in order.
DefaultEventFormatter_testing_end(ctx) ==
    << Out("write_break_line", NoValue) >>
    \o testing_end_failures(ctx) \o testing_end_summary(ctx)

\* What a handler did: the calls on the output writer, the rendered entries it
\* leaves, and the message parts its rendering hooks built.
Handled(calls, rendered, message_parts) ==
    [output |-> calls, rendered |-> rendered, message_parts |-> message_parts]

DefaultEventFormatter_file_load_done_always(rendered, ctx, test_file) ==
    LET done == DefaultEventFormatter_maybe_render_test_file_into(
                    rendered, <<>>, test_file, style_text(test_file, "COLOR_FAIL"))
    IN  Handled(<< Out("write_line", done.into) >>, done.rendered, done.into)

\* DefaultEventFormatter.file_load_done
DefaultEventFormatter_file_load_done(rendered, ctx, test_file) ==
    IF is_loaded_with_failure(ctx, test_file)
    THEN LET done == DefaultEventFormatter_maybe_render_test_file_into(
                        rendered, <<>>, test_file, style_text(test_file, "COLOR_FAIL"))
         IN  Handled(<< Out("write_line", done.into) >>, done.rendered, done.into)
    ELSE Handled(<<>>, rendered, <<>>)

\* DefaultEventFormatter.test_done
DefaultEventFormatter_test_done(rendered, event) ==
    IF ~event.has_test_file
    THEN Handled(<<>>, rendered, <<>>)
    ELSE LET done == DefaultEventFormatter_maybe_render_test_file_into(
                        rendered, <<>>, event.file, NoName)
             shown == test_done_keyword(event.result.classification)
             name == style_text(shown.keyword \o " " \o case_name(event.result) \o "",
                                shown.foreground)
             message_parts == render_custom_sub_directory_into(
                                  done.into, event.file, name, event.last)
         IN  Handled(<< Out("write_line", message_parts) >>, done.rendered, message_parts)

\* DefaultEventFormatter.file_testing_done
DefaultEventFormatter_file_testing_done(rendered, test_file) ==
    LET done == DefaultEventFormatter_maybe_render_test_file_into(
                    rendered, <<>>, test_file, NoName)
    IN  Handled(IF done.into # <<>> THEN << Out("write_line", done.into) >> ELSE <<>>,
                done.rendered, done.into)

\* ---------------------------------------------------- EventHandlerManager

\* The methods of the formatter, named as the manager is given them.
Handlers ==
    <<"file_registration_done", "file_load_done", "test_done", "file_testing_done",
      "testing_end">>

EventKinds ==
    {"FileRegistrationDone", "FileLoadDone", "TestDone", "FileTestingDone", "TestingEnd"}

handler_event_kind_by_docstring(handler) ==
    CASE handler = "file_registration_done" -> "FileRegistrationDone"
      [] handler = "file_load_done"         -> "FileLoadDone"
      [] handler = "test_done"              -> "TestDone"
      [] handler = "file_testing_done"      -> "FileTestingDone"
      [] handler = "testing_end"            -> "TestDone"

\* The kind of event a handler declares in its signature.
handler_event_kind(handler) ==
    CASE handler = "file_registration_done" -> "FileRegistrationDone"
      [] handler = "file_load_done"         -> "FileLoadDone"
      [] handler = "test_done"              -> "TestDone"
      [] handler = "file_testing_done"      -> "FileTestingDone"
      [] handler = "testing_end"            -> "TestingEnd"

\* EventHandlerManager.events: the manager with one more handler, registered
\* last for the kind of event it declares.
events(manager, handler) ==
    Append(manager, [kind |-> handler_event_kind(handler), handler |-> handler])

\* create_default_event_handler_manager: the registrations, in order.
create_default_event_handler_manager ==
    events(events(events(events(events(<<>>,
        Handlers[1]), Handlers[2]), Handlers[3]), Handlers[4]), Handlers[5])

\* The formatter while an event is published: its rendered entries, and the
\* calls, render_into calls and invocations made so far.
Formatter(rendered, log, calls, handlers) ==
    [rendered_entries |-> rendered, render_log |-> log, output |-> calls,
     invoked |-> handlers]

\* The entries whose render_into built the message parts, in order.
RenderedBy(message_parts) ==
    LET by_render_into == SelectSeq(message_parts, LAMBDA part : part.hook = "render_into")
    IN  [i \in 1..Len(by_render_into) |-> by_render_into[i].entry]

\* One handler is invoked with an event.
invoke(handler, formatter, event, ctx) ==
    LET rendered == formatter.rendered_entries
        done == CASE handler = "file_registration_done" ->
                        Handled(DefaultEventFormatter_file_registration_done(ctx),
                                rendered, <<>>)
                  [] handler = "file_load_done" ->
                        DefaultEventFormatter_file_load_done(rendered, ctx, event.file)
                  [] handler = "test_done" ->
                        DefaultEventFormatter_test_done(rendered, event)
                  [] handler = "file_testing_done" ->
                        DefaultEventFormatter_file_testing_done(rendered, event.file)
                  [] handler = "testing_end" ->
                        Handled(DefaultEventFormatter_testing_end(ctx), rendered, <<>>)
    IN  Formatter(done.rendered,
                  formatter.render_log \o RenderedBy(done.message_parts),
                  formatter.output \o done.output,
                  Append(formatter.invoked, handler))

\* EventHandlerManager.publish: the handlers registered for the kind of the
\* event are invoked one after the other, in registration order.
RECURSIVE publish(_, _, _, _)
publish(manager, formatter, event, ctx) ==
    IF manager = <<>>
    THEN formatter
    ELSE publish(Tail(manager),
                 IF Head(manager).kind = event.kind
                 THEN invoke(Head(manager).handler, formatter, event, ctx)
                 ELSE formatter,
                 event, ctx)

\* The engine publishes an event to the default manager; the formatter is as
\* its handlers leave it when publish returns.
Publish(event, ctx) ==
    LET done == publish(create_default_event_handler_manager,
                        Formatter(rendered_entries, render_log, <<>>, <<>>), event, ctx)
    IN  /\ published' = event
        /\ output' = done.output
        /\ rendered_entries' = done.rendered_entries
        /\ render_log' = done.render_log
        /\ invoked' = done.invoked

\* ------------------------------------------------------------- the run

\* The file under test: the first registered file from the cursor on that did
\* not fail to load (0 when there is none).
CurrentFile ==
    LET testable == {i \in cursor..Len(context.files) :
                        ~is_loaded_with_failure(context, context.files[i])}
    IN  IF testable = {} THEN 0 ELSE CHOOSE i \in testable : \A j \in testable : i <= j

\* All files are registered: FileRegistrationDone.
FileRegistrationDone(registered) ==
    /\ phase = "registering"
    /\ context' = [context EXCEPT !.files = registered]
    /\ Publish(Event("FileRegistrationDone", "NoValue", NoResult, FALSE, FALSE), context')
    /\ phase' = IF registered = <<>> THEN "testing" ELSE "loading"
    /\ UNCHANGED cursor
    /\ UNCHANGED <<unit_vars, writer_vars>>

\* The next file is loaded, with or without failure: FileLoadDone.
FileLoadDone(failure) ==
    /\ phase = "loading"
    /\ LET test_file == context.files[cursor]
       IN  /\ context' = IF failure THEN add_load_failure(context, test_file) ELSE context
           /\ Publish(Event("FileLoadDone", test_file, NoResult, FALSE, FALSE), context')
    /\ IF cursor = Len(context.files)
       THEN phase' = "testing" /\ cursor' = 1
       ELSE phase' = phase /\ cursor' = cursor + 1
    /\ UNCHANGED <<unit_vars, writer_vars>>

\* A test of the file under test is done: TestDone.
TestDone(kind, has_test_file, last) ==
    /\ phase = "testing"
    /\ CurrentFile # 0
    /\ context' = add_result(context, kind)
    /\ Publish(Event("TestDone", context.files[CurrentFile], Last(context'.results),
                     has_test_file, last), context')
    /\ UNCHANGED <<phase, cursor>>
    /\ UNCHANGED <<unit_vars, writer_vars>>

\* All tests of the file under test are done: FileTestingDone.
FileTestingDone ==
    /\ phase = "testing"
    /\ CurrentFile # 0
    /\ Publish(Event("FileTestingDone", context.files[CurrentFile], NoResult, FALSE, FALSE),
               context)
    /\ cursor' = CurrentFile + 1
    /\ UNCHANGED <<phase, context>>
    /\ UNCHANGED <<unit_vars, writer_vars>>

\* The run ends: TestingEnd.
TestingEnd ==
    /\ phase = "testing"
    /\ CurrentFile = 0
    /\ Publish(Event("TestingEnd", "NoValue", NoResult, FALSE, FALSE), context)
    /\ phase' = "ended"
    /\ UNCHANGED <<cursor, context>>
    /\ UNCHANGED <<unit_vars, writer_vars>>

\* Every event of a run, with every result a test may report.
FormatterNext ==
    \/ \E registered \in Registrations : FileRegistrationDone(registered)
    \/ \E failure \in BOOLEAN : FileLoadDone(failure)
    \/ \E kind \in Classifications, has_test_file, last \in BOOLEAN :
            Len(context.results) < MaxTests /\ TestDone(kind, has_test_file, last)
    \/ FileTestingDone
    \/ TestingEnd

FormatterSpec == Init /\ [][FormatterNext]_vars

\* A run of both files up to its end, each result with its test file.
RunEndNext ==
    \/ FileRegistrationDone(<<"test_a", "test_b">>)
    \/ \E failure \in BOOLEAN : FileLoadDone(failure)
    \/ \E kind \in Classifications, last \in BOOLEAN :
            Len(context.results) < MaxResults /\ TestDone(kind, TRUE, last)
    \/ FileTestingDone
    \/ TestingEnd

RunEndSpec == Init /\ [][RunEndNext]_vars

\* ------------------------------------------- properties of RunEndSpec

\* The results of the context of one classification, counted one by one.
CountOf(kind) ==
    Cardinality({i \in 1..Len(context.results) : context.results[i].classification = kind})

\* The summary as the counts of the context give it.
ExpectedSummary ==
    ToString(CountOf(FAILED)) \o " failed | " \o ToString(CountOf("SKIPPED"))
        \o " skipped | " \o ToString(CountOf(PASSED)) \o " passed"

\* The calls of output that write a text, in order.
Writes == SelectSeq(output, LAMBDA call : call.method = "write")

\* C9: once TestingEnd is handled, the first text written reads
\* "{failed} failed | {skipped} skipped | {passed} passed" with the counts of
\* the context; a second text, " | {n} files failed to load", is written iff
\* the context holds a load failure; 3 passed, 1 failed and 1 skipped read
\* "1 failed | 1 skipped | 3 passed".
C9_SummaryText ==
    phase = "ended" =>
        /\ Len(Writes) = IF context.load_failures # <<>> THEN 2 ELSE 1
        /\ PlainText(Writes[1].arg) = ExpectedSummary
        /\ Len(Writes) = 2 =>
                PlainText(Writes[2].arg) =
                    " | " \o ToString(Len(context.load_failures)) \o " files failed to load"
        /\ (CountOf(PASSED) = 3 /\ CountOf(FAILED) = 1 /\ CountOf("SKIPPED") = 1) =>
                PlainText(Writes[1].arg) = "1 failed | 1 skipped | 3 passed"

C9_Witness ==
    /\ phase = "ended"
    /\ CountOf(PASSED) = 3
    /\ CountOf(FAILED) = 1
    /\ CountOf("SKIPPED") = 1
    /\ context.load_failures = <<>>
    /\ PlainText(Writes[1].arg) = "1 failed | 1 skipped | 3 passed"

\* The place of a call in the report of testing_end.
ReportRank(call) ==
    CASE call.method = "write_break_line"      -> 0
      [] call.method = "write_load_failure"    -> 1
      [] call.method = "write_result_failing"  -> 2
      [] call.method = "write_result_informal" -> 3
      [] call.method = "write"                 -> 4
      [] call.method = "end_line"              -> 5

IsSummary(call) == call.method = "write" /\ PlainText(call.arg) = ExpectedSummary

CallsOf(method) == SelectSeq(output, LAMBDA call : call.method = method)

\* C10: once TestingEnd is handled, its calls are a write_break_line first, then
\* one call per load failure, then one call per failed result, then informal
\* results, then the summary, written exactly once and followed by nothing but
\* its load failure suffix and the end of its line.
C10_SummaryOnceAndLast ==
    phase = "ended" =>
        /\ output[1].method = "write_break_line"
        /\ Len(CallsOf("write_break_line")) = 1
        /\ \A i, j \in 1..Len(output) :
                i < j => ReportRank(output[i]) <= ReportRank(output[j])
        /\ [i \in 1..Len(context.load_failures) |-> CallsOf("write_load_failure")[i].arg]
                = context.load_failures
        /\ Len(CallsOf("write_load_failure")) = Len(context.load_failures)
        /\ Len(CallsOf("write_result_failing")) = CountOf(FAILED)
        /\ \A i \in 1..Len(context.results) :
                context.results[i].classification = FAILED =>
                    \E j \in 1..Len(output) :
                        output[j] = Out("write_result_failing", context.results[i])
        /\ Cardinality({i \in 1..Len(output) : IsSummary(output[i])}) = 1
        /\ \A i, j \in 1..Len(output) :
                (IsSummary(output[i]) /\ i < j) =>
                    \/ output[j].method = "end_line" /\ j = Len(output)
                    \/ output[j].method = "write" /\ j = i + 1 /\ j = Len(output) - 1
        /\ Last(output).method = "end_line"

C10_Witness ==
    /\ phase = "ended"
    /\ Len(context.load_failures) = 1
    /\ CountOf(FAILED) = 2
    /\ CountOf("INFORMAL") = 1
    /\ Len(output) = 7
    /\ IsSummary(output[5])

\* The results of the context of one classification, in the order recorded.
Recorded(kind) ==
    SelectSeq(context.results, LAMBDA result : result.classification = kind)

\* The parameters of the calls of one method, in order.
ArgsOf(method) == [i \in 1..Len(CallsOf(method)) |-> CallsOf(method)[i].arg]

\* C11: once TestingEnd is handled, no informal result is written when a result
\* of the context failed, and when none failed every informal result of the
\* context is written, once, in the order recorded.
C11_InformalOnlyWithoutFailure ==
    phase = "ended" =>
        IF CountOf(FAILED) > 0
        THEN CallsOf("write_result_informal") = <<>>
        ELSE ArgsOf("write_result_informal") = Recorded("INFORMAL")

C11_Witness ==
    /\ phase = "ended"
    /\ CountOf(FAILED) = 0
    /\ CountOf("INFORMAL") = 2
    /\ CountOf(PASSED) = 1
    /\ Len(CallsOf("write_result_informal")) = 2

\* C12: once TestingEnd is handled, every CONFLICTED result of the context is
\* the parameter of a call of its report that writes a result.
C12_ConflictedSurfaced ==
    phase = "ended" =>
        \A i \in 1..Len(context.results) :
            context.results[i].classification = "CONFLICTED" =>
                \E j \in 1..Len(output) :
                    /\ output[j].method \in {"write_result_failing", "write_result_informal"}
                    /\ output[j].arg = context.results[i]

\* ------------------------------------------- properties of FormatterSpec

\* C13: no entry has its render_into called twice by the formatter.
C13_RenderedOnce ==
    \A i, j \in 1..Len(render_log) : render_log[i] = render_log[j] => i = j

C13_Witness ==
    /\ render_log = <<"root", "test_a", "pkg", "test_b">>
    /\ published.kind = "TestDone"
    /\ published.file = "test_b"

\* The handlers of a manager registered for one kind of event, in registration
\* order.
RegisteredFor(manager, kind) ==
    LET registered == SelectSeq(manager, LAMBDA registration : registration.kind = kind)
    IN  [i \in 1..Len(registered) |-> registered[i].handler]

C15_AncestorsFirst ==
    /\ [](\A i \in 1..Len(render_log) :
            LET parents == iter_parents(render_log[i]) IN
            \A k \in 1..Len(parents) :
                \E j \in 1..(i - 1) :
                    /\ render_log[j] = parents[k]
                    /\ k > 1 => \E h \in 1..(j - 1) : render_log[h] = parents[k - 1])
    /\ [](Range(render_log) = rendered_entries)
    /\ [][rendered_entries \subseteq rendered_entries']_vars
    /\ [](published.kind = "FileTestingDone" =>
            ({published.file} \cup Range(iter_parents(published.file))) \subseteq rendered_entries)

C15_Witness ==
    /\ published.kind = "FileTestingDone"
    /\ published.file = "test_a"
    /\ render_log = <<"root", "pkg", "test_b", "test_a">>
    /\ output # <<>>

\* C16: a TestDone event whose result has a test file makes the formatter write
\* one line, whose last part is the one status of the line: the keyword of the
\* classification of the result (S, C, I, P, F, and ? for no other than
\* UNKNOWN) and the name of the case.  Without a test file nothing is written
\* and nothing rendered.
C16_OneStatusLine ==
    [][Len(context'.results) = Len(context.results) + 1 =>
        LET event == published'
            result == Last(context'.results)
        IN  /\ event.kind = "TestDone"
            /\ event.result = result
            /\ IF event.has_test_file
               THEN /\ Len(output') = 1
                    /\ output'[1].method = "write_line"
                    /\ LET parts == output'[1].arg
                           status == SelectSeq(parts, LAMBDA part :
                                        part.hook = "render_custom_sub_directory_into")
                           keyword == CASE result.classification = "SKIPPED"    -> "S"
                                        [] result.classification = "CONFLICTED" -> "C"
                                        [] result.classification = "INFORMAL"   -> "I"
                                        [] result.classification = PASSED       -> "P"
                                        [] result.classification = FAILED       -> "F"
                                        [] result.classification = "UNKNOWN"    -> "?"
                       IN  /\ Len(status) = 1
                           /\ Last(parts) = status[1]
                           /\ status[1].entry = event.file
                           /\ status[1].last = event.last
                           /\ PlainText(status[1].name) = keyword \o " " \o case_name(result)
               ELSE /\ output' = <<>>
                    /\ rendered_entries' = rendered_entries
                    /\ render_log' = render_log]_vars

C16_Witness ==
    /\ published.kind = "TestDone"
    /\ published.has_test_file
    /\ published.result.classification = "INFORMAL"
    /\ published.result.case = 2
    /\ Len(output) = 1
    /\ PlainText(Last(output[1].arg).name) = "I test_2"

\* C17: a FileLoadDone event of a file loaded without failure writes nothing and
\* renders nothing; of a file loaded with failure, it writes one line that ends
\* with the entry of the file rendered under its name in the failure color.
C17_LoadDoneFrame ==
    [][phase = "loading" =>
        LET test_file == context.files[cursor] IN
        /\ published'.kind = "FileLoadDone"
        /\ published'.file = test_file
        /\ IF is_loaded_with_failure(context', test_file)
           THEN /\ Len(output') = 1
                /\ output'[1].method = "write_line"
                /\ Last(output'[1].arg) =
                        [hook |-> "render_into", entry |-> test_file,
                         name |-> style_text(test_file, "COLOR_FAIL")]
                /\ test_file \in rendered_entries'
           ELSE /\ output' = <<>>
                /\ rendered_entries' = rendered_entries
                /\ render_log' = render_log]_vars

C17_Witness ==
    /\ published.kind = "FileLoadDone"
    /\ published.file = "test_b"
    /\ context.load_failures = <<"test_a">>
    /\ rendered_entries = {"root", "test_a"}
    /\ output = <<>>

====
